---- MODULE Spec2Model ----
(***************************************************************************)
(* Workflow execution engine of python/helpers/workflow_engine.py.         *)
(*                                                                         *)
(* One WorkflowEngine with its registry `executions`, the execute_workflow *)
(* coroutines it runs, and the synchronous calls stop_execution and        *)
(* get_execution_status.  A coroutine runs without interruption between    *)
(* two awaits that really suspend (the external agent call, the external   *)
(* tool call, the join of a PARALLEL node), so one action of the model is  *)
(* one such uninterrupted stretch of a coroutine, or one synchronous call. *)
(*                                                                         *)
(* Python values are tagged tuples: <<"str", s>>, <<"none">>,              *)
(* <<"list", v1, ..>>, <<"bool", b>>, ...; a Python dict read with         *)
(* d.get(k, default) is a TLA+ function whose DOMAIN is the set of keys;   *)
(* an Optional field of a record is <<>> (None) or <<v>>.  Timestamps are  *)
(* kept to the second, the resolution execution ids have.                  *)
(***************************************************************************)
EXTENDS Integers, Sequences, FiniteSets, TLC

\* ------------------------------------------------------------- bounds
\* Number of execute_workflow calls made on the engine.
MaxRuns == 2
\* Last clock second (int(time.time())) a behaviour reaches.
MaxClock == 2
\* Depth of nested execute_node calls at which the interpreter raises
\* RecursionError (Python's limit is 1000; the model's graphs are small).
RecursionLimit == 5
\* Number of nodes of the graphs validate_workflow is called on.
MaxNodes == 3
\* Number of input_<slot> values a handler called on its own is given.
MaxInputs == 3

VARIABLES
    workflow_data,  \* the wire payload the callers submit
    input_data,     \* the initial input the callers submit (for a handler
                    \* called on its own: its `inputs` dict)
    clock,          \* int(time.time())
    executions,     \* WorkflowEngine.executions: execution id -> record
    runs,           \* the execute_workflow calls: record and coroutine state
    last_call,      \* the last call other than execute_workflow, and how it ended
    workflow_engine \* the module global _workflow_engine: <<>> (None) or <<engine>>

vars == <<workflow_data, input_data, clock, executions, runs, last_call, workflow_engine>>

\* ------------------------------------------------------------- values
None == <<"none">>
Str(s) == <<"str", s>>
EmptyStr == Str("")

\* dict.get(key, default)
Get(d, key, default) == IF key \in DOMAIN d THEN d[key] ELSE default

\* An insertion-ordered dict with integer slots as keys ("input_<slot>"):
\* a sequence of <<slot, value>> pairs, one per key.
DictHas(d, k) == \E i \in 1..Len(d) : d[i][1] = k
DictGet(d, k, default) ==
    IF DictHas(d, k)
    THEN d[CHOOSE i \in 1..Len(d) : d[i][1] = k][2]
    ELSE default
\* d[k] = v : an existing key keeps its place, a new key goes last.
DictSet(d, k, v) ==
    IF DictHas(d, k)
    THEN [i \in 1..Len(d) |-> IF d[i][1] = k THEN <<k, v>> ELSE d[i]]
    ELSE Append(d, <<k, v>>)
\* [value for key, value in d.items() if key.startswith("input_")]
DictValues(d) == [i \in 1..Len(d) |-> d[i][2]]

\* d[k] = v on a dict keyed by plain values
DictPut(d, k, v) == [x \in (DOMAIN d) \cup {k} |-> IF x = k THEN v ELSE d[x]]

\* A Python list value from a sequence of values, and back.
List(s) == <<"list">> \o s
Items(v) == Tail(v)

Bool(b) == <<"bool", b>>
IntVal(n) == <<"int", n>>
\* A dict value with literal keys: <<"dict", <<key, value>>, ...>>
Dict(pairs) == <<"dict">> \o pairs

\* str(v) / json.dumps(v): a str is itself; anything else becomes the text
\* of that value, which is another value than the value itself.
StrOf(v) == IF v[1] = "str" THEN v ELSE <<"text", v>>
JsonDumps(v) == <<"json", v>>
IsStr(v) == v[1] \in {"str", "text", "json", "joined", "formatted"}

\* bool(v)
Truthy(v) == v \notin {None, EmptyStr, Bool(FALSE), List(<<>>), IntVal(0)}

\* An exception <<class, argument>>; str(e) is the message logged and returned.
Exc(cls, arg) == <<cls, arg>>

\* ------------------------------------------------------------- module globals
\* The names bound at module level.  `time` is imported inside
\* execute_workflow and _execute_single_node only, so it is a local name of
\* those two functions and no global of the module.
ModuleGlobals ==
    {"asyncio", "json", "Dict", "Any", "List", "Optional", "dataclass", "Enum",
     "Agent", "AgentContext", "UserMessage"}

\* Whether evaluating `time.time()` outside those two functions yields a value
\* (otherwise it raises NameError).
TimeDefined == "time" \in ModuleGlobals
NameErrorTime == Exc("NameError", "name 'time' is not defined")

\* ------------------------------------------------------------- graph model
NodeTypes ==
    {"input", "agent", "tool", "condition", "output", "loop", "parallel", "merge"}

\* ParseNodeFault without the enum lookup NodeType(node["type"]): any type
\* text is taken as it is.
ParseNodeFaultAnyType(node) ==
    IF "id" \notin DOMAIN node THEN <<<<"KeyError", "id">>>>
    ELSE IF "type" \notin DOMAIN node THEN <<<<"KeyError", "type">>>>
    ELSE <<>>

\* The first exception parsing the node list raises, as <<e>>, or <<>>.
\* WorkflowNode(id=node["id"], type=NodeType(node["type"]), ...)
ParseNodeFault(node) ==
    IF "id" \notin DOMAIN node THEN <<Exc("KeyError", "id")>>
    ELSE IF "type" \notin DOMAIN node THEN <<Exc("KeyError", "type")>>
    ELSE IF node["type"] \notin NodeTypes THEN <<Exc("ValueError", node["type"])>>
    ELSE <<>>

\* config, x and y are carried for the UI and read by no handler: left out.
ParseNode(node) ==
    [id |-> node["id"], type |-> node["type"], data |-> Get(node, "data", <<>>)]

\* WorkflowConnection(id=conn["id"], from_node=conn["from"], ...)
ParseConnectionFault(conn) ==
    IF "id" \notin DOMAIN conn THEN <<Exc("KeyError", "id")>>
    ELSE IF "from" \notin DOMAIN conn THEN <<Exc("KeyError", "from")>>
    ELSE IF "fromOutput" \notin DOMAIN conn THEN <<Exc("KeyError", "fromOutput")>>
    ELSE IF "to" \notin DOMAIN conn THEN <<Exc("KeyError", "to")>>
    ELSE IF "toInput" \notin DOMAIN conn THEN <<Exc("KeyError", "toInput")>>
    ELSE <<>>

ParseConnection(conn) ==
    [id |-> conn["id"], from_node |-> conn["from"], from_output |-> conn["fromOutput"],
     to_node |-> conn["to"], to_input |-> conn["toInput"]]

\* The exception a list comprehension raises: that of its first faulting
\* element (faults[i] is <<>> or <<e>>), or <<>>.
FirstFault(faults) ==
    IF \E i \in 1..Len(faults) : faults[i] # <<>>
    THEN faults[CHOOSE i \in 1..Len(faults) :
                   /\ faults[i] # <<>>
                   /\ \A j \in 1..(i-1) : faults[j] = <<>>]
    ELSE <<>>

\* Lines 82-97: the node list is built first, then the connection list.
ParseFault(wd) ==
    LET ns == Get(wd, "nodes", <<>>)
        cs == Get(wd, "connections", <<>>)
        nf == FirstFault([i \in 1..Len(ns) |-> ParseNodeFault(ns[i])])
    IN  IF nf # <<>> THEN nf
        ELSE FirstFault([i \in 1..Len(cs) |-> ParseConnectionFault(cs[i])])

ParseNodes(wd) ==
    LET ns == Get(wd, "nodes", <<>>) IN [i \in 1..Len(ns) |-> ParseNode(ns[i])]
ParseConnections(wd) ==
    LET cs == Get(wd, "connections", <<>>)
    IN  [i \in 1..Len(cs) |-> ParseConnection(cs[i])]

\* node_map = {node.id: node for node in nodes}: the last node of an id wins.
NodeMap(nodes) ==
    [id \in {nodes[i].id : i \in 1..Len(nodes)} |->
        nodes[CHOOSE i \in 1..Len(nodes) :
                /\ nodes[i].id = id
                /\ \A j \in (i+1)..Len(nodes) : nodes[j].id # id]]

\* [conn for conn in connections if conn.to_node == node.id]
Prerequisites(node, connections) ==
    SelectSeq(connections, LAMBDA conn : conn.to_node = node.id)

\* StartNodes with the connection's ends confused: the nodes nothing leaves.
StartNodesBySource(nodes, connections) ==
    SelectSeq(nodes, LAMBDA node :
        ~ \E i \in 1..Len(connections) : connections[i].from_node = node.id)

\* Every node taken as a start node, whether or not a connection leads into it.
StartNodesAll(nodes, connections) == nodes

\* The start nodes in reverse declaration order.
StartNodesReversed(nodes, connections) ==
    LET s == SelectSeq(nodes, LAMBDA node :
                 ~ \E i \in 1..Len(connections) : connections[i].to_node = node.id)
    IN  [i \in 1..Len(s) |-> s[Len(s) + 1 - i]]

\* [node for node in nodes
\*       if not any(conn.to_node == node.id for conn in connections)]
StartNodes(nodes, connections) ==
    SelectSeq(nodes, LAMBDA node :
        ~ \E i \in 1..Len(connections) : connections[i].to_node = node.id)

\* [node for node in nodes if node.type == NodeType.OUTPUT]
OutputNodes(nodes) == SelectSeq(nodes, LAMBDA node : node.type = "output")

\* ------------------------------------------------------------- execution record
\* A log entry; node_id and result are <<>> where the dict has no such key.
\* "result" is str(result)[:200]: the model's values are shorter than the cap.
LogEntry(now, level, message, node_id, result) ==
    [timestamp |-> now, level |-> level, message |-> message, node_id |-> node_id,
     result |-> result]

\* execute_workflow, lines 67-78: the record (WorkflowExecution) and, with it,
\* the state of the coroutine that owns it:
\*   pc             where the coroutine stands
\*   k              index of the `for start_node in start_nodes` loop
\*   stack          the nested execute_node calls, innermost last; a frame is
\*                  the node, the index of the prerequisite being resolved
\*                  and prerequisite_results
\*   awaiting       <<>> or <<what the suspended handler waits for>>
\*   ret            <<>> or <<the dict execute_workflow returned>>
\*   calls          the handler calls made so far (line 200), each with the
\*                  node's id and the inputs passed
NewRun(inp, now) ==
    [id |-> now, status |-> "running", current_node |-> <<>>,
     variables |-> [key \in {<<"input">>} |-> inp],
     execution_log |-> <<>>, start_time |-> now, end_time |-> <<>>,
     pc |-> "graph", nodes |-> <<>>, connections |-> <<>>, k |-> 1,
     stack |-> <<>>, visited |-> {}, results |-> <<>>, final_results |-> <<>>,
     awaiting |-> <<>>, ret |-> <<>>, calls |-> <<>>]

\* ExceptHandler that logs and returns the error but leaves the status alone.
ExceptHandlerKeepsStatus(m, e, now) ==
    LET log == Append(m.execution_log, LogEntry(now, "error", e, <<>>, <<>>))
    IN  [m EXCEPT !.end_time = <<now>>,
                  !.execution_log = log,
                  !.pc = "returned",
                  !.ret = <<[execution_id |-> m.id, error |-> e, log |-> log]>>]

\* The except branch starting a fresh log: the entries before the fault are
\* dropped.
ExceptHandlerFreshLog(m, e, now) ==
    LET log == <<LogEntry(now, "error", e, <<>>, <<>>)>>
    IN  [m EXCEPT !.status = "failed",
                  !.end_time = <<now>>,
                  !.execution_log = log,
                  !.pc = "returned",
                  !.ret = <<[execution_id |-> m.id, error |-> e, log |-> log]>>]

\* execute_workflow, lines 112-125: except Exception as e
ExceptHandler(m, e, now) ==
    LET log == Append(m.execution_log, LogEntry(now, "error", e, <<>>, <<>>))
    IN  [m EXCEPT !.status = "failed",
                  !.end_time = <<now>>,
                  !.execution_log = log,
                  !.pc = "returned",
                  !.ret = <<[execution_id |-> m.id, error |-> e, log |-> log]>>]

\* _execute_workflow_graph, lines 170-175: the value the call returns
SelectResult(m) ==
    LET output_nodes == OutputNodes(m.nodes)
    IN  IF output_nodes # <<>>
        THEN List([i \in 1..Len(output_nodes) |->
                     Get(m.results, output_nodes[i].id, None)])
        ELSE IF Len(m.final_results) = 1 THEN m.final_results[1]
        ELSE List(m.final_results)

\* execute_workflow, lines 100-110: the normal return
ReturnResult(m, now) ==
    [m EXCEPT !.status = "completed",
              !.end_time = <<now>>,
              !.pc = "returned",
              !.ret = <<[execution_id |-> m.id, result |-> SelectResult(m),
                         log |-> m.execution_log, duration |-> now - m.start_time]>>]

\* ------------------------------------------------------------- node handlers
\* A handler call ends in one of: <<"ok", value>> (it returned),
\* <<"raise", e>> (it raised), <<"await", what>> (it is suspended on an
\* external capability or on the join of its concurrent units).  Each handler
\* yields [m |-> the record as the handler left it, out |-> how it ended].
Ok(m, v) == [m |-> m, out |-> <<"ok", v>>]
Raise(m, e) == [m |-> m, out |-> <<"raise", e>>]
Await(m, what) == [m |-> m, out |-> <<"await", what>>]

\* _execute_input_node
ExecuteInputNode(m, node, inputs, now) ==
    IF <<"input">> \in DOMAIN m.variables
    THEN Ok(m, m.variables[<<"input">>])
    ELSE Ok(m, Get(node.data, "default_value", EmptyStr))

\* _execute_agent_node up to `await task.result()`
ExecuteAgentNode(m, node, inputs, now) ==
    LET input_0 == DictGet(inputs, 0, EmptyStr)
        input_text == IF input_0[1] = "dict" THEN JsonDumps(input_0)
                      ELSE IF ~ IsStr(input_0) THEN StrOf(input_0)
                      ELSE input_0
        enhanced_message ==
            <<"message", Get(node.data, "instructions", ""), input_text>>
    IN  Await(m, <<"agent", enhanced_message>>)

\* for key, value in inputs.items(): combined_args[param_name] = value
\* (node.data["input_param"][slot] stands for node.data["input_param_<slot>"])
RECURSIVE CombineArgs(_, _, _)
CombineArgs(args, inputs, data) ==
    IF inputs = <<>> THEN args
    ELSE LET param_name ==
                 Get(Get(data, "input_param", <<>>), Head(inputs)[1], "query")
         IN  CombineArgs(DictPut(args, param_name, Head(inputs)[2]),
                         Tail(inputs), data)

\* _execute_tool_node up to `await tool.execute(**combined_args)`; the lookup
\* agent.get_tool belongs to the external tool capability, whose fault is
\* an outcome of the await.
ExecuteToolNode(m, node, inputs, now) ==
    LET tool_name == Get(node.data, "tool_name", "knowledge_tool")
        tool_args == Get(node.data, "tool_args", <<>>)
        combined_args == CombineArgs(tool_args, inputs, node.data)
    IN  Await(m, <<"tool", tool_name, combined_args>>)

\* eval(condition, {"__builtins__": {}}, eval_context) for the expressions
\* the model's workflows use; any other expression names an undefined
\* variable.
EvalCondition(condition, input_value) ==
    CASE condition = "True" -> <<"ok", TRUE>>
      [] condition = "False" -> <<"ok", FALSE>>
      [] condition = "input" -> <<"ok", Truthy(input_value)>>
      [] OTHER -> <<"raise", Exc("NameError", condition)>>

\* _execute_condition_node
ExecuteConditionNode(m, node, inputs, now) ==
    LET condition == Get(node.data, "condition", "True")
        input_value == DictGet(inputs, 0, Bool(TRUE))
        result == EvalCondition(condition, input_value)
    IN  IF result[1] = "ok"
        THEN Ok(m, Dict(<< <<"condition_result", Bool(result[2])>>,
                           <<"value", input_value>> >>))
        \* except Exception as e: the log entry's "timestamp" is time.time()
        ELSE IF ~ TimeDefined THEN Raise(m, NameErrorTime)
        ELSE Ok([m EXCEPT !.execution_log =
                     Append(@, LogEntry(now, "warning",
                                        <<"Condition evaluation failed", result[2][2],
                                          "defaulting to True">>,
                                        <<node.id>>, <<>>))],
                Dict(<< <<"condition_result", Bool(TRUE)>>,
                        <<"value", input_value>> >>))

\* json.loads(s) for the documents the model's workflows use
JsonLoads(s) ==
    CASE s = "null" -> <<"ok", None>>
      [] s = "true" -> <<"ok", Bool(TRUE)>>
      [] OTHER -> <<"raise", Exc("JSONDecodeError", s)>>

\* _execute_output_node
ExecuteOutputNode(m, node, inputs, now) ==
    LET output_format == Get(node.data, "format", "raw")
        input_value == DictGet(inputs, 0, EmptyStr)
    IN  CASE output_format = "json" ->
               IF ~ IsStr(input_value) THEN Ok(m, input_value)
               ELSE LET parsed == IF input_value[1] = "str"
                                  THEN JsonLoads(input_value[2])
                                  ELSE <<"raise", Exc("JSONDecodeError", "")>>
                    IN  IF parsed[1] = "ok" THEN Ok(m, parsed[2])
                        ELSE Ok(m, Dict(<< <<"output", input_value>> >>))
          [] output_format = "formatted" ->
               LET template == Get(node.data, "template", "{value}")
               IN  CASE template = "{value}" -> Ok(m, StrOf(input_value))
                     [] template = "{missing}" -> Raise(m, Exc("KeyError", "missing"))
                     [] OTHER -> Ok(m, <<"formatted", template, input_value>>)
          [] OTHER -> Ok(m, input_value)

\* _execute_loop_node
ExecuteLoopNode(m, node, inputs, now) ==
    LET iterations == Get(node.data, "iterations", 1)
        input_value == DictGet(inputs, 0, EmptyStr)
        results == [i \in 1..iterations |->
                       Dict(<< <<"iteration", IntVal(i - 1)>>,
                               <<"input", input_value>>,
                               <<"result", input_value>> >>)]
        variables ==
            IF iterations < 1 THEN m.variables
            ELSE DictPut(DictPut(m.variables,
                                 <<"loop", node.id, "iteration">>, IntVal(iterations - 1)),
                         <<"loop", node.id, "input">>, input_value)
    IN  Ok([m EXCEPT !.variables = variables], List(results))

\* _execute_parallel_node up to `await asyncio.gather(...)`
ExecuteParallelNode(m, node, inputs, now) ==
    LET parallel_inputs == DictValues(inputs)
    IN  IF parallel_inputs = <<>> THEN Ok(m, List(<<>>))
        ELSE Await(m, <<"parallel", parallel_inputs>>)

\* _process_parallel_input: what one unit of the join yields; a unit's
\* exception is captured as its entry (return_exceptions=True).
ProcessParallelInput(input_value, index, now) ==
    IF ~ TimeDefined THEN <<"exception", NameErrorTime>>
    ELSE Dict(<< <<"index", IntVal(index)>>,
                 <<"input", input_value>>,
                 <<"processed", <<"text", input_value>> >>,
                 <<"timestamp", IntVal(now)>> >>)

\* " ".join(str(value) for value in input_values)
Join(values) ==
    IF values = <<>> THEN EmptyStr
    ELSE IF Len(values) = 1 THEN StrOf(values[1])
    ELSE <<"joined", [i \in 1..Len(values) |-> StrOf(values[i])]>>

\* _execute_merge_node
ExecuteMergeNode(m, node, inputs, now) ==
    LET merge_strategy == Get(node.data, "strategy", "concatenate")
        input_values == DictValues(inputs)
    IN  CASE merge_strategy = "concatenate" -> Ok(m, Join(input_values))
          [] merge_strategy = "array" -> Ok(m, List(input_values))
          [] merge_strategy = "json" ->
               Ok(m, Dict([i \in 1..Len(input_values) |->
                              <<"input", i - 1, input_values[i]>>]))
          [] OTHER -> Ok(m, IF input_values # <<>> THEN input_values[1] ELSE None)

\* self.node_handlers: one handler per NodeType
NodeHandler(m, node, inputs, now) ==
    CASE node.type = "input" -> ExecuteInputNode(m, node, inputs, now)
      [] node.type = "agent" -> ExecuteAgentNode(m, node, inputs, now)
      [] node.type = "tool" -> ExecuteToolNode(m, node, inputs, now)
      [] node.type = "condition" -> ExecuteConditionNode(m, node, inputs, now)
      [] node.type = "output" -> ExecuteOutputNode(m, node, inputs, now)
      [] node.type = "loop" -> ExecuteLoopNode(m, node, inputs, now)
      [] node.type = "parallel" -> ExecuteParallelNode(m, node, inputs, now)
      [] node.type = "merge" -> ExecuteMergeNode(m, node, inputs, now)

\* What an awaited capability can answer.  The agent and the tool are
\* external: each returns a text or raises.  The join of a PARALLEL node
\* returns one entry per unit, in input order.
AwaitOutcomes(what, now) ==
    CASE what[1] = "agent" ->
           {<<"ok", Str("agent reply")>>, <<"raise", Exc("ExternalFault", "agent")>>}
      [] what[1] = "tool" ->
           {<<"ok", Str("tool message")>>, <<"raise", Exc("ExternalFault", "tool")>>}
      [] what[1] = "parallel" ->
           {<<"ok", List([i \in 1..Len(what[2]) |->
                            ProcessParallelInput(what[2][i], i - 1, now)])>>}

\* ------------------------------------------------------------- executor
Frame(node) == [node |-> node, j |-> 1, prerequisite_results |-> <<>>]
Top(m) == m.stack[Len(m.stack)]

\* A call execute_node(node) that looks at the status first: a stopped run
\* abandons the walk and execute returns an error.
CallUnlessStopped(m, node, now) ==
    IF m.status = "stopped"
    THEN [m EXCEPT !.end_time = <<now>>,
                   !.pc = "returned",
                   !.ret = <<[execution_id |-> m.id,
                              error |-> Exc("Exception", "stopped"),
                              log |-> m.execution_log]>>]
    ELSE IF Len(m.stack) >= RecursionLimit
    THEN ExceptHandler(m, Exc("RecursionError", "maximum recursion depth exceeded"), now)
    ELSE [m EXCEPT !.stack = Append(@, Frame(node)), !.pc = "enter"]

\* A call execute_node(node): a new frame, unless the interpreter's
\* recursion limit is reached.
Call(m, node, now) ==
    IF Len(m.stack) >= RecursionLimit
    THEN ExceptHandler(m, Exc("RecursionError", "maximum recursion depth exceeded"), now)
    ELSE [m EXCEPT !.stack = Append(@, Frame(node)), !.pc = "enter"]

\* execute_node returns v: to the caller's line 153
\* (prerequisite_results[f"input_{prereq.to_input}"] = prereq_result), or to
\* the loop over the start nodes, lines 167-168.
Return(m, v) ==
    \* d names the record as the node left it, and rest the frames below the
    \* node's, each evaluated once
    CHOOSE n \in
        {IF rest = <<>>
         THEN [d EXCEPT !.stack = rest,
                        !.final_results = Append(@, v),
                        !.k = @ + 1,
                        !.pc = "loop"]
         ELSE LET caller == rest[Len(rest)]
                  prereq == Prerequisites(caller.node, d.connections)[caller.j]
              IN  [d EXCEPT !.stack =
                       [rest EXCEPT ![Len(rest)] =
                           [caller EXCEPT
                               !.prerequisite_results = DictSet(@, prereq.to_input, v),
                               !.j = @ + 1]],
                            !.pc = "prereq"] :
         d \in {m}, rest \in {SubSeq(m.stack, 1, Len(m.stack) - 1)}} : TRUE

\* Complete with continue-on-error: a handler's fault is logged and the node
\* resolves to None instead of the exception being raised again.
CompleteContinueOnError(m, out, now) ==
    LET node == Top(m).node
        v == IF out[1] = "ok" THEN out[2] ELSE None
        entry == IF out[1] = "ok"
                 THEN LogEntry(now, "success", <<"Node completed successfully", node.id>>,
                               <<node.id>>, <<StrOf(out[2])>>)
                 ELSE LogEntry(now, "error", <<"Node failed", node.id>> \o out[2],
                               <<node.id>>, <<>>)
    IN  Return([m EXCEPT !.execution_log = Append(@, entry),
                         !.visited = @ \cup {node.id},
                         !.results = DictPut(@, node.id, v),
                         !.awaiting = <<>>],
               v)

\* The handler of the innermost node ended with `out` (ok or raise):
\* _execute_single_node lines 202-219, then execute_node lines 159-162.
Complete(m, out, now) ==
    LET node == Top(m).node
    IN  IF out[1] = "ok"
        THEN Return([m EXCEPT
                        !.execution_log =
                            Append(@, LogEntry(now, "success",
                                               <<"Node completed successfully", node.id>>,
                                               <<node.id>>, <<StrOf(out[2])>>)),
                        !.visited = @ \cup {node.id},
                        !.results = DictPut(@, node.id, out[2]),
                        !.awaiting = <<>>],
                    out[2])
        ELSE ExceptHandler([m EXCEPT
                               !.execution_log =
                                   Append(@, LogEntry(now, "error",
                                                      <<"Node failed", node.id>> \o out[2],
                                                      <<node.id>>, <<>>)),
                               !.awaiting = <<>>],
                           out[2], now)

\* Dispatch without the info entry: the handler is called unannounced.
DispatchNoInfo(m, now) ==
    LET f == Top(m)
        m1 == [m EXCEPT
                  !.current_node = <<f.node.id>>,
                  !.calls = Append(@, [node_id |-> f.node.id,
                                       inputs |-> f.prerequisite_results])]
        h == NodeHandler(m1, f.node, f.prerequisite_results, now)
    IN  IF f.node.type \notin NodeTypes
        THEN ExceptHandler(m1, Exc("Exception", "No handler for node type"), now)
        ELSE IF h.out[1] = "await"
        THEN [h.m EXCEPT !.pc = "await", !.awaiting = <<h.out[2]>>]
        ELSE Complete(h.m, h.out, now)

\* execute_node line 156 and _execute_single_node lines 188-200: the info
\* entry, then the handler.
Dispatch(m, now) ==
    LET f == Top(m)
        m1 == [m EXCEPT
                  !.current_node = <<f.node.id>>,
                  !.calls = Append(@, [node_id |-> f.node.id,
                                       inputs |-> f.prerequisite_results]),
                  !.execution_log =
                      Append(@, LogEntry(now, "info",
                                         <<"Executing node", f.node.id, f.node.type>>,
                                         <<f.node.id>>, <<>>))]
    IN  \* lines 195-197: raised outside the try, so no node error entry
        IF f.node.type \notin NodeTypes
        THEN ExceptHandler(m1, Exc("Exception", "No handler for node type"), now)
        ELSE \* h names what the handler did, evaluated once
             CHOOSE n \in {IF h.out[1] = "await"
                           THEN [h.m EXCEPT !.pc = "await", !.awaiting = <<h.out[2]>>]
                           ELSE Complete(h.m, h.out, now) :
                           h \in {NodeHandler(m1, f.node, f.prerequisite_results, now)}} :
                 TRUE

\* Visited without the memo: every call executes the node again.
VisitedNever(m, node) == FALSE

\* execute_node line 143: if node.id in visited
Visited(m, node) == node.id \in m.visited

\* One step of the coroutine that does not suspend.
Step(m, now) ==
    CASE m.pc = "graph" ->
           \* _execute_workflow_graph lines 129-136
           IF StartNodes(m.nodes, m.connections) = <<>>
           THEN ExceptHandler(m, Exc("Exception", "No starting nodes found in workflow"), now)
           ELSE [m EXCEPT !.pc = "loop", !.k = 1]
      [] m.pc = "loop" ->
           \* for start_node in start_nodes (line 166), then lines 170-175
           LET start_nodes == StartNodes(m.nodes, m.connections)
           IN  IF m.k > Len(start_nodes) THEN ReturnResult(m, now)
               ELSE Call(m, start_nodes[m.k], now)
      [] m.pc = "enter" ->
           \* execute_node lines 143-148
           IF Visited(m, Top(m).node)
           THEN Return(m, Get(m.results, Top(m).node.id, None))
           ELSE [m EXCEPT !.pc = "prereq"]
      [] m.pc = "prereq" ->
           \* execute_node lines 150-157
           LET f == Top(m)
               prerequisites == Prerequisites(f.node, m.connections)
               node_map == NodeMap(m.nodes)
           IN  IF f.j <= Len(prerequisites)
               THEN IF prerequisites[f.j].from_node \notin DOMAIN node_map
                    THEN ExceptHandler(m, Exc("KeyError", prerequisites[f.j].from_node), now)
                    ELSE Call(m, node_map[prerequisites[f.j].from_node], now)
               ELSE Dispatch(m, now)

\* The coroutine runs until it suspends in a handler or returns.
RECURSIVE RunSync(_, _)
RunSync(m, now) ==
    \* s names the record the previous step produced, evaluated once
    CHOOSE n \in {IF s.pc \in {"await", "returned"} THEN s
                  ELSE RunSync(Step(s, now), now) : s \in {m}} : TRUE

\* execute_workflow from its first line to its first suspension or its return
ExecuteWorkflowCall(wd, inp, now) ==
    LET m0 == NewRun(inp, now)
        fault == ParseFault(wd)
    IN  IF fault # <<>> THEN ExceptHandler(m0, fault[1], now)
        ELSE RunSync([m0 EXCEPT !.nodes = ParseNodes(wd),
                                !.connections = ParseConnections(wd)], now)

\* ------------------------------------------------------------- payloads
\* Wire shapes: {"id", "type", "data"} and {"id", "from", "fromOutput", "to", "toInput"}
WN(id, type) == [id |-> id, type |-> type]
WND(id, type, data) == [id |-> id, type |-> type, data |-> data]
WC(id, from, to, toInput) ==
    [id |-> id, from |-> from, fromOutput |-> 0, to |-> to, toInput |-> toInput]
Workflow(nodes, connections) == [nodes |-> nodes, connections |-> connections]

\* A -> B, A -> C, B -> D, C -> D
WfDiamond ==
    Workflow(<<WND("A", "input", [default_value |-> Str("d")]), WN("B", "merge"),
               WN("C", "merge"), WN("D", "output")>>,
             <<WC("c1", "A", "B", 0), WC("c2", "A", "C", 0),
               WC("c3", "B", "D", 0), WC("c4", "C", "D", 1)>>)
\* A -> B -> C
WfChain ==
    Workflow(<<WN("A", "input"), WN("B", "merge"), WN("C", "output")>>,
             <<WC("c1", "A", "B", 0), WC("c2", "B", "C", 0)>>)
\* a start node S that leads into the cycle A -> B -> A
WfCycle ==
    Workflow(<<WN("S", "input"), WN("A", "merge"), WN("B", "merge")>>,
             <<WC("c0", "S", "A", 1), WC("c1", "A", "B", 0), WC("c2", "B", "A", 0)>>)
\* every node on a cycle
WfAllCycle ==
    Workflow(<<WN("A", "merge"), WN("B", "merge")>>,
             <<WC("c1", "A", "B", 0), WC("c2", "B", "A", 0)>>)
WfEmpty == Workflow(<<>>, <<>>)
\* a node without "id", after a well-formed one
WfNoId == Workflow(<<WN("A", "input"), [type |-> "input"]>>, <<>>)
WfBogusType == Workflow(<<WN("A", "input"), WN("B", "bogus")>>, <<>>)
\* a connection without "toInput"
WfBadConn ==
    Workflow(<<WN("A", "input"), WN("B", "output")>>,
             <<[id |-> "c1", from |-> "A", fromOutput |-> 0, to |-> "B"]>>)
\* the id A listed twice
WfDup == Workflow(<<WN("A", "loop"), WN("B", "input"), WN("A", "loop")>>, <<>>)
\* two start nodes feeding the same input slot of C
WfTwoStarts ==
    Workflow(<<WN("A", "input"), WN("B", "tool"), WND("C", "merge", [strategy |-> "array"])>>,
             <<WC("c1", "A", "C", 0), WC("c2", "B", "C", 0)>>)
WfAgentThenInput == Workflow(<<WN("A", "agent"), WN("B", "input")>>, <<>>)
WfCondition == Workflow(<<WND("A", "condition", [condition |-> "input"])>>, <<>>)
WfConditionFault ==
    Workflow(<<WND("A", "condition", [condition |-> "undefined_var"]), WN("B", "input")>>,
             <<>>)
WfSingleOutput == Workflow(<<WN("A", "output")>>, <<>>)
WfFormatFault ==
    Workflow(<<WND("A", "output", [format |-> "formatted", template |-> "{missing}"])>>,
             <<>>)
WfLoop == Workflow(<<WND("A", "loop", [iterations |-> 2])>>, <<>>)
WfParallel ==
    Workflow(<<WN("A", "input"), WN("B", "input"), WN("P", "parallel")>>,
             <<WC("c1", "A", "P", 0), WC("c2", "B", "P", 1)>>)
\* a connection from a node that does not exist
WfDangling ==
    Workflow(<<WN("A", "input"), WN("B", "output")>>, <<WC("c1", "X", "B", 0)>>)

Workflows ==
    <<WfDiamond, WfChain, WfCycle, WfAllCycle, WfEmpty, WfNoId, WfBogusType,
      WfBadConn, WfDup, WfTwoStarts, WfAgentThenInput, WfCondition,
      WfConditionFault, WfSingleOutput, WfFormatFault, WfLoop, WfParallel,
      WfDangling>>

\* The initial input: a text, or None when the caller passes none (as
\* EnhancedFeatures.execute_workflow does).
InputData(wd) ==
    IF wd \in {WfDiamond, WfAgentThenInput, WfSingleOutput, WfCondition}
    THEN {Str("x"), None}
    ELSE {Str("x")}

\* The ids callers ask about: "exec_<second>" for the seconds of the model.
ExecutionIds == 1..MaxClock

\* ------------------------------------------------------------- actions
Init ==
    /\ workflow_data \in {Workflows[i] : i \in 1..Len(Workflows)}
    /\ input_data \in InputData(workflow_data)
    /\ clock = 1
    /\ executions = <<>>
    /\ runs = <<>>
    /\ last_call = [op |-> "none", id |-> 0, out |-> <<"none">>]
    /\ workflow_engine = <<>>

\* A caller starts execute_workflow: the record is created and registered
\* under exec_<int(time.time())>, and the coroutine runs to its first
\* suspension or to its return.
ExecuteWorkflow ==
    /\ Len(runs) < MaxRuns
    /\ runs' = Append(runs, ExecuteWorkflowCall(workflow_data, input_data, clock))
    /\ executions' = DictPut(executions, clock, Len(runs) + 1)
    /\ UNCHANGED <<workflow_data, input_data, clock, last_call, workflow_engine>>

\* The capability a suspended handler awaits answers; the coroutine goes on
\* to its next suspension or to its return.
HandlerReturn(r) ==
    /\ runs[r].pc = "await"
    /\ UNCHANGED <<workflow_data, input_data, clock, executions, last_call, workflow_engine>>
    /\ \E out \in AwaitOutcomes(runs[r].awaiting[1], clock) :
          runs' = [runs EXCEPT ![r] = RunSync(Complete(@, out, clock), clock)]

\* stop_execution without the test of the status: `if execution:`
StopExecutionNoStatusCheck(execution_id) ==
    /\ IF execution_id \in DOMAIN executions
       THEN LET r == executions[execution_id]
            IN  IF TimeDefined
                THEN /\ runs' = [runs EXCEPT ![r].status = "stopped",
                                             ![r].end_time = <<clock>>]
                     /\ last_call' = [op |-> "stop_execution", id |-> execution_id,
                                      out |-> <<"return", Bool(TRUE)>>]
                ELSE /\ runs' = [runs EXCEPT ![r].status = "stopped"]
                     /\ last_call' = [op |-> "stop_execution", id |-> execution_id,
                                      out |-> <<"raise", NameErrorTime>>]
       ELSE /\ runs' = runs
            /\ last_call' = [op |-> "stop_execution", id |-> execution_id,
                             out |-> <<"return", Bool(FALSE)>>]
    /\ UNCHANGED <<workflow_data, input_data, clock, executions, workflow_engine>>

\* stop_execution(execution_id)
StopExecution(execution_id) ==
    /\ IF /\ execution_id \in DOMAIN executions
          /\ runs[executions[execution_id]].status = "running"
       THEN LET r == executions[execution_id]
            IN  IF TimeDefined
                THEN /\ runs' = [runs EXCEPT ![r].status = "stopped",
                                             ![r].end_time = <<clock>>]
                     /\ last_call' = [op |-> "stop_execution", id |-> execution_id,
                                      out |-> <<"return", Bool(TRUE)>>]
                ELSE \* line 384 raises after line 383 has been executed
                     /\ runs' = [runs EXCEPT ![r].status = "stopped"]
                     /\ last_call' = [op |-> "stop_execution", id |-> execution_id,
                                      out |-> <<"raise", NameErrorTime>>]
       ELSE /\ runs' = runs
            /\ last_call' = [op |-> "stop_execution", id |-> execution_id,
                             out |-> <<"return", Bool(FALSE)>>]
    /\ UNCHANGED <<workflow_data, input_data, clock, executions, workflow_engine>>

\* The dict get_execution_status builds for a record
StatusSnapshot(execution, now) ==
    [id |-> execution.id,
     status |-> execution.status,
     current_node |-> execution.current_node,
     progress |-> Len(execution.execution_log),
     start_time |-> execution.start_time,
     end_time |-> execution.end_time,
     duration |-> (IF execution.end_time # <<>> THEN execution.end_time[1] ELSE now)
                     - execution.start_time]

\* get_execution_status(execution_id): returns None or the snapshot
GetExecutionStatus(execution_id) ==
    /\ last_call' =
          [op |-> "get_execution_status", id |-> execution_id,
           out |-> IF execution_id \notin DOMAIN executions
                   THEN <<"return", None>>
                   ELSE LET execution == runs[executions[execution_id]]
                        IN  \* (execution.end_time or time.time())
                            IF execution.end_time = <<>> /\ ~ TimeDefined
                            THEN <<"raise", NameErrorTime>>
                            ELSE <<"return", <<"snapshot", StatusSnapshot(execution, clock)>> >>]
    /\ UNCHANGED <<workflow_data, input_data, clock, executions, runs, workflow_engine>>

\* ------------------------------------------------------------- validate_workflow
\* d.get(key) as an Optional: <<>> (None) or <<value>>; `not d.get(key)` holds
\* of None and of the empty text; f"{d.get(key)}" renders None as "None".
Opt(d, key) == IF key \in DOMAIN d THEN <<d[key]>> ELSE <<>>
Falsy(opt) == opt = <<>> \/ opt[1] = ""
Rendered(opt) == IF opt = <<>> THEN "None" ELSE opt[1]

\* The concatenation of a sequence of sequences.
RECURSIVE Flatten(_)
Flatten(ss) == IF ss = <<>> THEN <<>> ELSE Head(ss) \o Flatten(Tail(ss))

\* The messages validate_workflow appends, each as <<message, argument>>;
\* str(e) of a caught exception is the exception.
ErrNodeId == <<"Node missing required 'id' field", "">>
ErrNodeType(node) ==
    <<"Node missing required 'type' field", Get(node, "id", "unknown")>>
ErrConnField(field) == <<"Connection missing required field", field>>
ErrSource(conn) ==
    <<"Connection references non-existent source node", Rendered(Opt(conn, "from"))>>
ErrTarget(conn) ==
    <<"Connection references non-existent target node", Rendered(Opt(conn, "to"))>>
WarnOrphan(node) == <<"Node is not connected to the workflow", node["id"]>>
ErrCircular == Exc("Exception", "Circular dependency detected in workflow")

\* Lines 396-400
NodeFieldErrors(nodes) ==
    Flatten([i \in 1..Len(nodes) |->
                (IF Falsy(Opt(nodes[i], "id")) THEN <<ErrNodeId>> ELSE <<>>)
                \o (IF Falsy(Opt(nodes[i], "type")) THEN <<ErrNodeType(nodes[i])>>
                    ELSE <<>>)])

\* Lines 402-406
required_fields == <<"id", "from", "to", "fromOutput", "toInput">>
ConnectionFieldErrors(connections) ==
    Flatten([i \in 1..Len(connections) |->
                Flatten([f \in 1..Len(required_fields) |->
                            IF required_fields[f] \notin DOMAIN connections[i]
                            THEN <<ErrConnField(required_fields[f])>>
                            ELSE <<>>])])

\* Lines 412-416
EndpointErrors(connections, node_ids) ==
    Flatten([i \in 1..Len(connections) |->
                LET from == Opt(connections[i], "from")
                    to == Opt(connections[i], "to")
                IN  (IF from = <<>> \/ from[1] \notin node_ids
                     THEN <<ErrSource(connections[i])>> ELSE <<>>)
                    \o (IF to = <<>> \/ to[1] \notin node_ids
                        THEN <<ErrTarget(connections[i])>> ELSE <<>>)])

\* Lines 418-419: connected_nodes, None included when an end is missing
ConnectedNodes(connections) ==
    UNION {{Opt(connections[i], "from"), Opt(connections[i], "to")} :
              i \in 1..Len(connections)}

\* OrphanWarnings without the test len(nodes) > 1
OrphanWarningsAnyCount(nodes, connected_nodes) ==
    Flatten([i \in 1..Len(nodes) |->
                IF <<nodes[i]["id"]>> \notin connected_nodes
                THEN <<WarnOrphan(nodes[i])>> ELSE <<>>])

\* Lines 422-424
OrphanWarnings(nodes, connected_nodes) ==
    Flatten([i \in 1..Len(nodes) |->
                IF <<nodes[i]["id"]>> \notin connected_nodes /\ Len(nodes) > 1
                THEN <<WarnOrphan(nodes[i])>> ELSE <<>>])

\* The keys of adj_list in insertion order: the node ids, each where it is
\* listed first (lines 443-444).
AdjKeys(nodes) ==
    LET ids == [i \in 1..Len(nodes) |-> nodes[i]["id"]]
        first == {i \in 1..Len(ids) : \A j \in 1..(i - 1) : ids[j] # ids[i]}
    IN  [k \in 1..Cardinality(first) |->
            ids[CHOOSE i \in first : Cardinality({j \in first : j < i}) = k - 1]]

\* Lines 446-448: <<"ok", adj_list>>, or <<"raise", e>> when the source of a
\* connection is no key of adj_list.
RECURSIVE BuildAdjList(_, _)
BuildAdjList(adj_list, connections) ==
    IF connections = <<>> THEN <<"ok", adj_list>>
    ELSE LET conn == Head(connections)
         IN  IF Falsy(Opt(conn, "from")) \/ Falsy(Opt(conn, "to"))
             THEN BuildAdjList(adj_list, Tail(connections))
             ELSE IF conn["from"] \notin DOMAIN adj_list
             THEN <<"raise", Exc("KeyError", conn["from"])>>
             ELSE BuildAdjList([adj_list EXCEPT ![conn["from"]] = Append(@, conn["to"])],
                               Tail(connections))

\* has_cycle(node_id), lines 454-468, on the state st of the traversal:
\* visited, rec_stack and the value returned.
RECURSIVE has_cycle(_, _, _)
RECURSIVE HasCycleNeighbors(_, _, _)
has_cycle(adj_list, node_id, st) ==
    IF node_id \in st.rec_stack THEN [st EXCEPT !.returned = TRUE]
    ELSE IF node_id \in st.visited THEN [st EXCEPT !.returned = FALSE]
    ELSE LET st1 == [visited |-> st.visited \cup {node_id},
                     rec_stack |-> st.rec_stack \cup {node_id},
                     returned |-> FALSE]
             st2 == HasCycleNeighbors(adj_list, Get(adj_list, node_id, <<>>), st1)
         IN  IF st2.returned THEN st2
             ELSE [st2 EXCEPT !.rec_stack = @ \ {node_id}]

\* for neighbor in adj_list.get(node_id, []): if has_cycle(neighbor): return True
HasCycleNeighbors(adj_list, neighbors, st) ==
    IF neighbors = <<>> THEN [st EXCEPT !.returned = FALSE]
    ELSE LET st1 == has_cycle(adj_list, Head(neighbors), st)
         IN  IF st1.returned THEN st1
             ELSE HasCycleNeighbors(adj_list, Tail(neighbors), st1)

\* CycleFromAny that starts the traversal at the first key only.
CycleFromFirst(adj_list, keys, st) ==
    keys # <<>> /\ has_cycle(adj_list, Head(keys), st).returned

\* Lines 470-473: for node_id in adj_list: if node_id not in visited: ...
RECURSIVE CycleFromAny(_, _, _)
CycleFromAny(adj_list, keys, st) ==
    IF keys = <<>> THEN FALSE
    ELSE IF Head(keys) \in st.visited THEN CycleFromAny(adj_list, Tail(keys), st)
    ELSE LET st1 == has_cycle(adj_list, Head(keys), st)
         IN  st1.returned \/ CycleFromAny(adj_list, Tail(keys), st1)

\* _check_circular_dependencies: <<>> when it returns, <<e>> when it raises
CheckCircularDependencies(nodes, connections) ==
    LET keys == AdjKeys(nodes)
        built == BuildAdjList([id \in {keys[k] : k \in 1..Len(keys)} |-> <<>>],
                              connections)
    IN  IF built[1] = "raise" THEN <<built[2]>>
        ELSE IF CycleFromAny(built[2], keys,
                             [visited |-> {}, rec_stack |-> {}, returned |-> FALSE])
        THEN <<ErrCircular>>
        ELSE <<>>

\* validate_workflow(workflow_data): <<"raise", e>>, or <<"return", result>>
ValidateWorkflowCall(wd) ==
    LET nodes == Get(wd, "nodes", <<>>)
        connections == Get(wd, "connections", <<>>)
        errors1 == NodeFieldErrors(nodes) \o ConnectionFieldErrors(connections)
    IN  \* line 409: node_ids = {node["id"] for node in nodes}
        IF \E i \in 1..Len(nodes) : "id" \notin DOMAIN nodes[i]
        THEN <<"raise", Exc("KeyError", "id")>>
        ELSE LET node_ids == {nodes[i]["id"] : i \in 1..Len(nodes)}
                 errors2 == errors1 \o EndpointErrors(connections, node_ids)
                 warnings == OrphanWarnings(nodes, ConnectedNodes(connections))
                 errors == errors2 \o CheckCircularDependencies(nodes, connections)
             IN  <<"return",
                   <<"validation",
                     [valid |-> Len(errors) = 0, errors |-> errors,
                      warnings |-> warnings, node_count |-> Len(nodes),
                      connection_count |-> Len(connections)]>> >>

\* A second of wall-clock time passes.
Tick ==
    /\ clock < MaxClock
    /\ clock' = clock + 1
    /\ UNCHANGED <<workflow_data, input_data, executions, runs, last_call, workflow_engine>>

Next ==
    \/ ExecuteWorkflow
    \/ \E r \in 1..Len(runs) : HandlerReturn(r)
    \/ \E execution_id \in ExecutionIds : StopExecution(execution_id)
    \/ \E execution_id \in ExecutionIds : GetExecutionStatus(execution_id)
    \/ Tick

Spec == Init /\ [][Next]_vars

\* The calls that write to a record, under the assumption that every
\* external agent or tool call that a run awaits eventually returns or
\* faults.  get_execution_status only reads the records and is left out.
ExternalCallsReturn ==
    \A r \in 1..MaxRuns : WF_vars(r \in 1..Len(runs) /\ HandlerReturn(r))
NextLive ==
    \/ ExecuteWorkflow
    \/ \E r \in 1..Len(runs) : HandlerReturn(r)
    \/ \E execution_id \in ExecutionIds : StopExecution(execution_id)
    \/ Tick
SpecLive == Init /\ [][NextLive]_vars /\ ExternalCallsReturn

\* ------------------------------------------------------------- validation calls
\* The payloads validate_workflow is given: every graph of up to MaxNodes
\* nodes, the workflows above, and payloads with several defects at once.
NodeNames == <<"A", "B", "C", "D", "E">>
AllPairs(n) == [k \in 1..(n * n) |-> <<((k - 1) \div n) + 1, ((k - 1) % n) + 1>>]
GraphPayload(n, E) ==
    LET pairs == SelectSeq(AllPairs(n), LAMBDA p : p \in E)
    IN  Workflow([i \in 1..n |-> WN(NodeNames[i], "merge")],
                 [k \in 1..Len(pairs) |->
                     WC("c", NodeNames[pairs[k][1]], NodeNames[pairs[k][2]], 0)])
\* a node without "type"
WfNoType == Workflow(<<[id |-> "A"], WN("B", "input")>>, <<WC("c1", "A", "B", 0)>>)
\* a connection from a node that does not exist, beside the cycle A -> B -> A
WfDanglingCycle ==
    Workflow(<<WN("A", "merge"), WN("B", "merge")>>,
             <<WC("c1", "X", "A", 0), WC("c2", "A", "B", 0), WC("c3", "B", "A", 0)>>)
\* a node without "type", a connection without three of its fields and a
\* connection to a node that does not exist
WfManyDefects ==
    Workflow(<<WN("A", "input"), [id |-> "B"]>>,
             <<[id |-> "c1", from |-> "A"], WC("c2", "A", "Z", 0)>>)

DefectPayloads ==
    {Workflows[i] : i \in 1..Len(Workflows)}
    \cup {WfNoType, WfDanglingCycle, WfManyDefects}

InitValidate ==
    /\ \/ \E n \in 0..MaxNodes : \E E \in SUBSET ((1..n) \X (1..n)) :
             workflow_data = GraphPayload(n, E)
       \/ workflow_data \in DefectPayloads
    /\ input_data = None
    /\ clock = 1
    /\ executions = <<>>
    /\ runs = <<>>
    /\ last_call = [op |-> "none", id |-> 0, out |-> <<"none">>]
    /\ workflow_engine = <<>>

\* A caller validates the payload.
ValidateWorkflow ==
    /\ last_call' = [op |-> "validate_workflow", id |-> 0,
                     out |-> ValidateWorkflowCall(workflow_data)]
    /\ UNCHANGED <<workflow_data, input_data, clock, executions, runs, workflow_engine>>

NextValidate == ValidateWorkflow

SpecValidate == InitValidate /\ [][NextValidate]_vars

\* ------------------------------------------------------------- handler calls
\* A node handler called on its own, self.node_handlers[node.type](execution,
\* node, inputs), with inputs input_0 .. input_<n-1> for n up to MaxInputs,
\* the keys inserted in any order (execute_node inserts them in the order the
\* connections are declared in).
HandlerValues == {Str("a"), Str("b"), None}
SlotOrders(n) ==
    {slots \in [1..n -> 0..(n - 1)] : \A i, j \in 1..n : i # j => slots[i] # slots[j]}
HandlerInputs ==
    UNION {{[i \in 1..n |-> <<slots[i], vs[i]>>] :
               vs \in [1..n -> HandlerValues], slots \in SlotOrders(n)} :
              n \in 0..MaxInputs}
HandlerNodes ==
    {WN("P", "parallel"),
     WN("M", "merge"),
     WND("M", "merge", [strategy |-> "concatenate"]),
     WND("M", "merge", [strategy |-> "array"]),
     WND("M", "merge", [strategy |-> "json"]),
     WND("M", "merge", [strategy |-> "first"])}

InitHandler ==
    /\ workflow_data \in {Workflow(<<node>>, <<>>) : node \in HandlerNodes}
    /\ input_data \in HandlerInputs
    /\ clock = 1
    /\ executions = <<>>
    /\ runs = <<>>
    /\ last_call = [op |-> "none", id |-> 0, out |-> <<"none">>]
    /\ workflow_engine = <<>>

\* The handler of the payload's node is called with `inputs` and runs until
\* it returns, raises or suspends.
CallHandler ==
    /\ LET node == ParseNodes(workflow_data)[1]
           h == NodeHandler(NewRun(None, clock), node, input_data, clock)
       IN  last_call' = [op |-> "node_handler", id |-> 0,
                         out |-> IF h.out[1] = "ok" THEN <<"return", h.out[2]>>
                                 ELSE h.out]
    /\ UNCHANGED <<workflow_data, input_data, clock, executions, runs, workflow_engine>>

\* What the suspended handler awaits answers, and the handler returns it.
HandlerResume ==
    /\ last_call.op = "node_handler"
    /\ last_call.out[1] = "await"
    /\ \E out \in AwaitOutcomes(last_call.out[2], clock) :
          last_call' = [last_call EXCEPT
                           !.out = IF out[1] = "ok" THEN <<"return", out[2]>> ELSE out]
    /\ UNCHANGED <<workflow_data, input_data, clock, executions, runs, workflow_engine>>

NextHandler ==
    \/ CallHandler
    \/ HandlerResume

SpecHandler == InitHandler /\ [][NextHandler]_vars

\* ------------------------------------------------------------- module-level entry
\* The contexts of the callers of the module-level execute_workflow.
Contexts == {"c1", "c2"}

\* WorkflowEngine(context): the engine object, as far as its context goes
\* (its registry is `executions`).
WorkflowEngine(context) == [context |-> context]

\* get_workflow_engine(context): the module's engine, created on the first call
GetWorkflowEngine(context) ==
    IF workflow_engine = <<>> THEN WorkflowEngine(context) ELSE workflow_engine[1]

\* self.context of the engine whose handlers run for the coroutine m
SelfContext(m) == m.engine.context

\* The payloads submitted through the module-level entry point: graphs with
\* an AGENT or a TOOL start node, and one without.
EntryWorkflows == {WfAgentThenInput, WfTwoStarts, WfChain}

InitEntry ==
    /\ workflow_data \in EntryWorkflows
    /\ input_data = None
    /\ clock = 1
    /\ executions = <<>>
    /\ runs = <<>>
    /\ last_call = [op |-> "none", id |-> 0, out |-> <<"none">>]
    /\ workflow_engine = <<>>

\* A caller with `context` calls the module-level execute_workflow(context,
\* workflow_data): the coroutine keeps `context` and `engine` as locals and
\* runs engine.execute_workflow to its first suspension or to its return.
ModuleExecuteWorkflow(context) ==
    /\ Len(runs) < MaxRuns
    /\ LET engine == GetWorkflowEngine(context)
       IN  /\ workflow_engine' = <<engine>>
           /\ runs' = Append(runs,
                             ExecuteWorkflowCall(workflow_data, input_data, clock)
                                @@ [context |-> context, engine |-> engine])
    /\ executions' = DictPut(executions, clock, Len(runs) + 1)
    /\ UNCHANGED <<workflow_data, input_data, clock, last_call>>

NextEntry ==
    \/ \E context \in Contexts : ModuleExecuteWorkflow(context)
    \/ \E r \in 1..Len(runs) : HandlerReturn(r)
    \/ Tick

SpecEntry == InitEntry /\ [][NextEntry]_vars

\* ------------------------------------------------------------- properties
Runs == 1..Len(runs)
Returned(r) == runs[r].pc = "returned"
ReturnedResult(r) == Returned(r) /\ "result" \in DOMAIN runs[r].ret[1]
ReturnedError(r) == Returned(r) /\ "error" \in DOMAIN runs[r].ret[1]
TerminalStatus == {"completed", "failed", "stopped"}

\* How often node `id` was handed to its handler in run r.
Dispatches(r, id) ==
    Cardinality({k \in 1..Len(runs[r].calls) : runs[r].calls[k].node_id = id})

\* The log entries of run r of the given levels that carry node `id`.
NodeEntries(r, id, levels) ==
    {i \in 1..Len(runs[r].execution_log) :
        /\ runs[r].execution_log[i].level \in levels
        /\ runs[r].execution_log[i].node_id = <<id>>}

\* The connections of run r as edges, and whether they hold a directed cycle.
Edges(r) ==
    {<<runs[r].connections[i].from_node, runs[r].connections[i].to_node>> :
        i \in 1..Len(runs[r].connections)}
RECURSIVE PathsUpTo(_, _)
PathsUpTo(E, n) ==
    IF n = 0 THEN E
    ELSE LET P == PathsUpTo(E, n - 1)
         IN  P \cup {<<pq[1][1], pq[2][2]>> : pq \in {x \in P \X E : x[1][2] = x[2][1]}}
HasCycle(E) == \E e \in PathsUpTo(E, Cardinality(E)) : e[1] = e[2]
\* Every connection of run r joins two nodes of its graph.
NoDanglingConnection(r) ==
    \A e \in Edges(r) : \A x \in {e[1], e[2]} :
        \E i \in 1..Len(runs[r].nodes) : runs[r].nodes[i].id = x

\* C1: for an acyclic graph with a start node whose handlers do not fault,
\* one execute call dispatches every node of the graph exactly once,
\* the nodes downstream of a start node included (the diamond: A, B, C, D).
C1_EveryNodeDispatchedOnce ==
    \A r \in Runs :
        (ReturnedResult(r) /\ ~ HasCycle(Edges(r)) /\ NoDanglingConnection(r)) =>
            \A i \in 1..Len(runs[r].nodes) : Dispatches(r, runs[r].nodes[i].id) = 1

C3_MemoizationLaw ==
    \A r \in Runs : \A i \in 1..Len(runs[r].nodes) :
        /\ Cardinality(NodeEntries(r, runs[r].nodes[i].id, {"success", "error"})) <= 1
        /\ Dispatches(r, runs[r].nodes[i].id) <= 1

\* The id A is listed twice, both listings were resolved (three start-chain
\* values) and A's handler ran once.
C3_Witness ==
    \E r \in Runs :
        /\ ReturnedResult(r)
        /\ Cardinality({i \in 1..Len(runs[r].nodes) : runs[r].nodes[i].id = "A"}) = 2
        /\ Len(runs[r].final_results) = 3
        /\ Cardinality(NodeEntries(r, "A", {"success"})) = 1

\* C4: execute on a graph that contains a directed cycle returns an error
\* result and the record ends failed; it does not complete successfully.
C4_CyclicGraphFails ==
    \A r \in Runs :
        (Returned(r) /\ HasCycle(Edges(r))) =>
            /\ "error" \in DOMAIN runs[r].ret[1]
            /\ runs[r].status = "failed"

\* C5: execute never raises: it ends by returning a dict with execution_id,
\* log and exactly one of result and error; when it returns error the
\* record is failed, end_time is set and the last log entry is an error
\* entry whose message is the returned error.
C5_ExecuteReturnsStructured ==
    \A r \in Runs :
        LET m == runs[r]
        IN  /\ m.pc # "returned" => (m.pc = "await" /\ m.ret = <<>>)
            /\ m.pc = "returned" =>
                  /\ Len(m.ret) = 1
                  /\ {"execution_id", "log"} \subseteq DOMAIN m.ret[1]
                  /\ ("result" \in DOMAIN m.ret[1]) # ("error" \in DOMAIN m.ret[1])
                  /\ m.ret[1].execution_id = m.id
            /\ ReturnedError(r) =>
                  /\ m.status = "failed"
                  /\ m.end_time # <<>>
                  /\ m.execution_log # <<>>
                  /\ m.execution_log[Len(m.execution_log)].level = "error"
                  /\ m.execution_log[Len(m.execution_log)].message = m.ret[1].error
                  /\ m.ret[1].log = m.execution_log

\* execute returned an error after the external agent capability faulted.
C5_Witness ==
    \E r \in Runs :
        /\ ReturnedError(r)
        /\ runs[r].ret[1].error = Exc("ExternalFault", "agent")
        /\ Len(runs[r].execution_log) = 3

\* C6: once a record's status is completed, failed or stopped it never
\* changes again.
C6_TerminalStatusIsFinal ==
    [][\A r \in Runs :
          runs[r].status \in TerminalStatus => runs'[r].status = runs[r].status]_vars

\* C7: end_time is written exactly once, at the first transition out of
\* running, and keeps that value afterwards.
C7_EndTimeWrittenOnce ==
    [][\A r \in Runs :
          /\ (runs[r].status = "running" /\ runs'[r].status # "running")
                => runs'[r].end_time # <<>>
          /\ runs'[r].status = "running" => runs'[r].end_time = <<>>
          /\ runs[r].end_time # <<>> => runs'[r].end_time = runs[r].end_time]_vars

\* C8: stop on a running record returns true and leaves it stopped with
\* end_time set; the call does not fault, so no record has a non-running
\* status together with a null end_time.
C8_StopStampsEndTime ==
    /\ last_call.op = "stop_execution" => last_call.out[1] = "return"
    /\ \A r \in Runs : runs[r].status # "running" => runs[r].end_time # <<>>

\* C9: stop on an id that is absent from the registry or whose record is
\* not running returns false and changes no record (status, end_time and
\* log as before), a second stop on a stopped run included.
C9_StopOnNonRunningIsNoOp ==
    [][\A id \in ExecutionIds :
          (/\ last_call' # last_call
           /\ last_call'.op = "stop_execution"
           /\ last_call'.id = id
           /\ \/ id \notin DOMAIN executions
              \/ runs[executions[id]].status # "running")
          => (/\ last_call'.out = <<"return", Bool(FALSE)>>
              /\ runs' = runs
              /\ executions' = executions)]_vars

\* A second stop on a run already marked stopped returned false, and the
\* record's end_time is as unset as before.
C9_Witness ==
    /\ last_call.op = "stop_execution"
    /\ last_call.out = <<"return", Bool(FALSE)>>
    /\ last_call.id \in DOMAIN executions
    /\ runs[executions[last_call.id]].status = "stopped"

\* C10: get_status returns not_found exactly when the id is not in the
\* registry; otherwise, whatever the record's status, it returns a snapshot
\* with the record's status and current_node and progress = the number of
\* log entries, and it leaves the record unchanged.
C10_GetStatusSnapshot ==
    [][(last_call' # last_call /\ last_call'.op = "get_execution_status") =>
          LET id == last_call'.id
              out == last_call'.out
          IN  /\ out[1] = "return"
              /\ (out[2] = None) <=> (id \notin DOMAIN executions)
              /\ id \in DOMAIN executions =>
                    LET execution == runs[executions[id]]
                    IN  /\ out[2][1] = "snapshot"
                        /\ out[2][2].status = execution.status
                        /\ out[2][2].current_node = execution.current_node
                        /\ out[2][2].progress = Len(execution.execution_log)
              /\ runs' = runs
              /\ executions' = executions]_vars

\* The payload's lists, and its defects, read off the wire shape.
WireNodes == Get(workflow_data, "nodes", <<>>)
WireConnections == Get(workflow_data, "connections", <<>>)
ConnectionFields == {"id", "from", "to", "fromOutput", "toInput"}
StructuralDefect ==
    \/ \E i \in 1..Len(WireNodes) :
          \/ ~ ({"id", "type"} \subseteq DOMAIN WireNodes[i])
          \/ WireNodes[i]["type"] \notin NodeTypes
    \/ \E i \in 1..Len(WireConnections) :
          ~ (ConnectionFields \subseteq DOMAIN WireConnections[i])
\* Every node of the payload is the target of some connection.
NoStartNode ==
    \A i \in 1..Len(WireNodes) :
        \E j \in 1..Len(WireConnections) :
            WireConnections[j]["to"] = WireNodes[i]["id"]
NoStartNodeError == Exc("Exception", "No starting nodes found in workflow")

\* The node-level entries of run r's log: those that carry a node_id.
NodeLevelEntries(r, levels) ==
    {i \in 1..Len(runs[r].execution_log) :
        /\ runs[r].execution_log[i].level \in levels
        /\ runs[r].execution_log[i].node_id # <<>>}

\* C11: for a well-formed payload, execute returns the NoStartNode error
\* exactly when every node is the target of a connection (the empty graph
\* and the graph whose nodes all lie on a cycle included); the record is
\* then failed and no handler has been dispatched.
C11_NoStartNode ==
    ~ StructuralDefect =>
        \A r \in Runs :
            /\ (ReturnedError(r) /\ runs[r].ret[1].error = NoStartNodeError)
                  <=> NoStartNode
            /\ NoStartNode =>
                  /\ Returned(r)
                  /\ runs[r].status = "failed"
                  /\ runs[r].calls = <<>>
                  /\ NodeLevelEntries(r, {"info", "success", "error"}) = {}

\* execute returned the NoStartNode error for a graph that has nodes, all of
\* them on a cycle.
C11_Witness ==
    \E r \in Runs :
        /\ WireNodes # <<>>
        /\ ReturnedError(r)
        /\ runs[r].ret[1].error = NoStartNodeError
        /\ runs[r].status = "failed"

\* C12: for a payload with a structural defect (a node without id or type,
\* a type that is none of the eight kinds, a connection without one of its
\* five fields), wherever the defect sits, execute returns an error, the
\* record ends failed and the log holds no node-level entry.
C12_StructuralFaultAborts ==
    StructuralDefect =>
        \A r \in Runs :
            /\ ReturnedError(r)
            /\ runs[r].status = "failed"
            /\ runs[r].calls = <<>>
            /\ NodeLevelEntries(r, {"info", "success", "error", "warning"}) = {}

\* execute returned an error for a payload whose first node is well formed
\* and whose second node is of no known type.
C12_Witness ==
    \E r \in Runs :
        /\ Len(WireNodes) = 2
        /\ {"id", "type"} \subseteq DOMAIN WireNodes[2]
        /\ WireNodes[2]["type"] \notin NodeTypes
        /\ ReturnedError(r)
        /\ runs[r].ret[1].error[1] = "ValueError"

\* C13: a handler fault at node N leaves N's error entry in the log
\* directly before the run's own error entry, no node is dispatched after
\* it (no info entry follows), and the run ends failed with that error as
\* its result; the record is never seen failed after a dispatch without
\* the node's error entry in its log.
C13_NodeFaultAbortsRun ==
    \A r \in Runs :
        LET m == runs[r]
            log == m.execution_log
        IN  /\ \A i \in NodeLevelEntries(r, {"error"}) :
                  /\ ReturnedError(r)
                  /\ m.status = "failed"
                  /\ i = Len(log) - 1
                  /\ log[i].node_id = <<m.calls[Len(m.calls)].node_id>>
                  /\ \A j \in (i + 1)..Len(log) : log[j].level # "info"
                  /\ log[Len(log)].level = "error"
                  /\ log[Len(log)].node_id = <<>>
                  /\ log[Len(log)].message = m.ret[1].error
            /\ ((m.status = "failed" \/ ReturnedError(r)) /\ m.calls # <<>>)
                  => NodeLevelEntries(r, {"error"}) # {}

\* A handler faulted while another start node was still to be dispatched,
\* and the run ended failed without dispatching it.
C13_Witness ==
    \E r \in Runs :
        /\ NodeLevelEntries(r, {"error"}) # {}
        /\ runs[r].status = "failed"
        /\ Len(runs[r].calls) < Len(StartNodes(runs[r].nodes, runs[r].connections))

\* C14: a successful execute returns, when the graph has OUTPUT nodes, the
\* list in declaration order of the values their handlers produced in this
\* run; otherwise the single start node's value, or the list of all start
\* nodes' values in declaration order.
C14_OutputSelection ==
    \A r \in Runs :
        (ReturnedResult(r) /\ NoDanglingConnection(r)) =>
            LET m == runs[r]
                output_nodes == OutputNodes(m.nodes)
                start_nodes == StartNodes(m.nodes, m.connections)
            IN  IF output_nodes # <<>>
                THEN /\ \A i \in 1..Len(output_nodes) :
                           Dispatches(r, output_nodes[i].id) >= 1
                     /\ m.ret[1].result =
                           List([i \in 1..Len(output_nodes) |->
                                    m.results[output_nodes[i].id]])
                ELSE IF Len(start_nodes) = 1
                THEN m.ret[1].result = m.results[start_nodes[1].id]
                ELSE m.ret[1].result =
                         List([i \in 1..Len(start_nodes) |->
                                  m.results[start_nodes[i].id]])

\* C18: every execute call's record stays in the registry under the id the
\* call returned, and two calls never get the same id, two calls made
\* within the same clock second included.
C18_RegistryKeepsEveryRecord ==
    /\ \A r \in Runs :
          /\ runs[r].id \in DOMAIN executions
          /\ executions[runs[r].id] = r
    /\ \A r1, r2 \in Runs : r1 # r2 => runs[r1].id # runs[r2].id

\* C19: when the handler in flight of a run marked stopped ends, its
\* success or error entry is appended to the run's log and the run is still
\* marked stopped.
C19_CooperativeCancel ==
    [][\A r \in Runs :
          (/\ runs[r].status = "stopped"
           /\ runs[r].pc = "await"
           /\ runs'[r] # runs[r])
          => LET n == Len(runs[r].execution_log) + 1
             IN  /\ Len(runs'[r].execution_log) >= n
                 /\ runs'[r].execution_log[n].level \in {"success", "error"}
                 /\ runs'[r].execution_log[n].node_id = runs[r].current_node
                 /\ runs'[r].status = "stopped"]_vars

\* What the last validate_workflow call returned.
Validated == last_call.op = "validate_workflow"
ValidateReturned == Validated /\ last_call.out[1] = "return"
Validation == last_call.out[2][2]
ErrorSet == {Validation.errors[i] : i \in 1..Len(Validation.errors)}

\* The payload's defects, read off the wire shape.
HasText(d, key) == key \in DOMAIN d /\ d[key] # ""
WireNodeIds == {WireNodes[i]["id"] : i \in {j \in 1..Len(WireNodes) : HasText(WireNodes[j], "id")}}
EndpointExists(conn, end) == end \in DOMAIN conn /\ conn[end] \in WireNodeIds
\* The connections with both ends given, as edges.
WireEdges ==
    {<<WireConnections[i]["from"], WireConnections[i]["to"]>> :
        i \in {j \in 1..Len(WireConnections) :
                  {"from", "to"} \subseteq DOMAIN WireConnections[j]}}
\* A directed cycle: a non-empty set of nodes each with a successor in it.
CycleAmong(E) ==
    \E S \in (SUBSET {e[1] : e \in E}) \ {{}} :
        \A x \in S : \E y \in S : <<x, y>> \in E
\* The nodes (by position) that no connection names.
Unconnected ==
    {i \in 1..Len(WireNodes) :
        \A j \in 1..Len(WireConnections) : \A end \in {"from", "to"} :
            end \in DOMAIN WireConnections[j]
                => WireConnections[j][end] # WireNodes[i]["id"]}

\* C15: for a payload whose nodes all have ids and whose connections all
\* join existing nodes, validate returns, and its errors hold the circular
\* dependency exactly when the connections contain a directed cycle (a
\* self-loop and a cycle no start node reaches included); valid is then
\* false.
C15_ValidateDetectsCycles ==
    (/\ Validated
     /\ \A i \in 1..Len(WireNodes) : HasText(WireNodes[i], "id")
     /\ \A i \in 1..Len(WireConnections) :
           EndpointExists(WireConnections[i], "from")
           /\ EndpointExists(WireConnections[i], "to"))
    => /\ last_call.out[1] = "return"
       /\ (ErrCircular \in ErrorSet) <=> CycleAmong(WireEdges)
       /\ CycleAmong(WireEdges) => Validation.valid = FALSE

\* validate was called on A -> B -> C -> A and returned valid = false with
\* the circular dependency.
C15_Witness ==
    /\ ValidateReturned
    /\ WireEdges = {<<"A", "B">>, <<"B", "C">>, <<"C", "A">>}
    /\ Validation.valid = FALSE
    /\ ErrCircular \in ErrorSet

\* C16: validate returns for every payload, and its errors hold an entry for
\* each node without id or type, each connection without one of its five
\* fields, each connection end that names no node, and the circular
\* dependency if the connections contain a cycle, also when several defects
\* occur together; valid is false whenever there is such a defect.
C16_ValidateCollectsAll ==
    Validated =>
        /\ last_call.out[1] = "return"
        /\ \A i \in 1..Len(WireNodes) :
              /\ ~ HasText(WireNodes[i], "id") => ErrNodeId \in ErrorSet
              /\ ~ HasText(WireNodes[i], "type") => ErrNodeType(WireNodes[i]) \in ErrorSet
        /\ \A i \in 1..Len(WireConnections) :
              /\ \A f \in ConnectionFields :
                    f \notin DOMAIN WireConnections[i] => ErrConnField(f) \in ErrorSet
              /\ ~ EndpointExists(WireConnections[i], "from")
                    => ErrSource(WireConnections[i]) \in ErrorSet
              /\ ~ EndpointExists(WireConnections[i], "to")
                    => ErrTarget(WireConnections[i]) \in ErrorSet
        /\ CycleAmong(WireEdges) => ErrCircular \in ErrorSet
        /\ Validation.valid = (Validation.errors = <<>>)

\* C17: when validate returns, its warnings are one per node that no
\* connection names if the payload has two or more nodes, and none
\* otherwise; no error is about such a node, and valid is true exactly
\* when errors is empty, whatever the warnings.
C17_OrphanWarnings ==
    ValidateReturned =>
        /\ Len(Validation.warnings) =
              IF Len(WireNodes) >= 2 THEN Cardinality(Unconnected) ELSE 0
        /\ \A i \in 1..Len(Validation.warnings) :
              \E j \in Unconnected : Validation.warnings[i] = WarnOrphan(WireNodes[j])
        /\ \A e \in ErrorSet : \A j \in 1..Len(WireNodes) : e[1] # WarnOrphan(WireNodes[j])[1]
        /\ Validation.valid <=> (Validation.errors = <<>>)

\* validate returned valid = true with warnings for the unconnected nodes
\* of a payload of two or more nodes.
C17_Witness ==
    /\ ValidateReturned
    /\ Len(WireNodes) >= 2
    /\ Unconnected # {}
    /\ Len(Validation.warnings) = Cardinality(Unconnected)
    /\ Validation.valid = TRUE

\* C20: a PARALLEL handler given n input values returns, after its join, a
\* list of n entries, entry i being the normal result of input i (its index
\* and its input): no unit of these calls is made to fault, so no entry is
\* a captured error.
C20_ParallelFullJoin ==
    (/\ last_call.op = "node_handler"
     /\ ParseNodes(workflow_data)[1].type = "parallel"
     /\ last_call.out[1] # "await")
    => /\ last_call.out[1] = "return"
       /\ last_call.out[2][1] = "list"
       /\ Len(Items(last_call.out[2])) = Len(input_data)
       /\ \A i \in 1..Len(input_data) :
             LET entry == Items(last_call.out[2])[i]
             IN  /\ entry[1] = "dict"
                 /\ entry[2] = <<"index", IntVal(i - 1)>>
                 /\ entry[3] = <<"input", input_data[i][2]>>

\* The node whose handler is called on its own, and what the call returned.
HandlerNode == ParseNodes(workflow_data)[1]
HandlerReturned == last_call.op = "node_handler" /\ last_call.out[1] = "return"
\* The values of the inputs ordered by input slot (the slots are 0 .. n-1).
ValuesBySlot == [i \in 1..Len(input_data) |-> DictGet(input_data, i - 1, None)]
ThreeStrategies == {"concatenate", "array", "json"}

\* C21: a MERGE handler with strategy concatenate, array or json returns
\* its input values combined in the order of their input slots, whatever
\* order the inputs arrived in: joined by single spaces, as the list, or as
\* the map input_<i> -> value of slot i.
C21_MergeBySlot ==
    (/\ last_call.op = "node_handler"
     /\ HandlerNode.type = "merge"
     /\ "strategy" \in DOMAIN HandlerNode.data
     /\ HandlerNode.data["strategy"] \in ThreeStrategies)
    => /\ last_call.out[1] = "return"
       /\ last_call.out[2] =
             CASE HandlerNode.data["strategy"] = "concatenate" ->
                    Join(ValuesBySlot)
               [] HandlerNode.data["strategy"] = "array" -> List(ValuesBySlot)
               [] HandlerNode.data["strategy"] = "json" ->
                    Dict([i \in 1..Len(ValuesBySlot) |->
                             <<"input", i - 1, ValuesBySlot[i]>>])

\* C27: a MERGE handler whose strategy is none of concatenate, array and
\* json, or that has no strategy configured, returns its first input value
\* (the first to arrive, or the one of the lowest slot), or null when it has
\* no inputs.
C27_MergeDefaultFirst ==
    (/\ last_call.op = "node_handler"
     /\ HandlerNode.type = "merge"
     /\ \/ "strategy" \notin DOMAIN HandlerNode.data
        \/ HandlerNode.data["strategy"] \notin ThreeStrategies)
    => /\ last_call.out[1] = "return"
       /\ IF input_data = <<>> THEN last_call.out[2] = None
          ELSE last_call.out[2] \in {input_data[1][2], ValuesBySlot[1]}

\* The CONDITION nodes of run r whose expression faults when it is evaluated.
FaultingConditions(r) ==
    {runs[r].nodes[i].id : i \in
        {j \in 1..Len(runs[r].nodes) :
            /\ runs[r].nodes[j].type = "condition"
            /\ EvalCondition(Get(runs[r].nodes[j].data, "condition", "True"),
                             Bool(TRUE))[1] = "raise"}}

\* C22: when the expression of a dispatched CONDITION node faults, a
\* warning entry with the node's id is logged, the node has no error entry,
\* and the run, none of whose other nodes faults, returns a result and is
\* not failed.
C22_ConditionFaultSwallowed ==
    \A r \in Runs : \A id \in FaultingConditions(r) :
        (Returned(r) /\ Dispatches(r, id) > 0) =>
            /\ NodeEntries(r, id, {"warning"}) # {}
            /\ NodeEntries(r, id, {"error"}) = {}
            /\ ReturnedResult(r)
            /\ runs[r].status # "failed"

\* The initial input execute was called with for run r, if any.
InitialInput(r) == runs[r].variables[<<"input">>]

\* C23: a dispatched INPUT node resolves to the run's initial input when
\* execute was called with one, and to the default value configured in the
\* node's data when it was called without.
C23_InputOrDefault ==
    \A r \in Runs : \A i \in 1..Len(runs[r].nodes) :
        LET node == runs[r].nodes[i]
        IN  (/\ node.type = "input"
             /\ node.id \in DOMAIN runs[r].results
             /\ InitialInput(r) = None => "default_value" \in DOMAIN node.data)
            => runs[r].results[node.id] =
                  IF InitialInput(r) # None THEN InitialInput(r)
                  ELSE node.data["default_value"]

\* The entries of run r's log that announce a dispatch, and those that end one.
InfoEntries(r) == NodeLevelEntries(r, {"info"})
EndEntries(r) == NodeLevelEntries(r, {"success", "error"})

\* C24: every dispatch is announced by an info entry with the node's id,
\* appended before the handler is called; the entry right after it is the
\* one success entry (the handler returned: the node has a result) or the one
\* error entry (the handler faulted: the run fails) of the same node, and it
\* is missing only while the handler is in flight; every success or error
\* entry with a node id comes right after such an info entry.
C24_LoggingProtocol ==
    \A r \in Runs :
        LET log == runs[r].execution_log
        IN  /\ Cardinality(InfoEntries(r)) = Len(runs[r].calls)
            /\ \A i \in InfoEntries(r) :
                  \/ /\ i = Len(log)
                     /\ runs[r].pc = "await"
                     /\ runs[r].current_node = log[i].node_id
                  \/ /\ i + 1 \in EndEntries(r)
                     /\ log[i + 1].node_id = log[i].node_id
            /\ \A i \in EndEntries(r) :
                  /\ i - 1 \in InfoEntries(r)
                  /\ log[i - 1].node_id = log[i].node_id
                  /\ log[i].level = "success" => log[i].node_id[1] \in DOMAIN runs[r].results
                  /\ log[i].level = "error" => (i + 1 = Len(log) /\ ReturnedError(r))
\* In one run a handler has returned and the next has faulted; in another
\* a handler is in flight after its info entry.
C24_Witness ==
    /\ \E r \in Runs :
          /\ Returned(r)
          /\ \E i, j \in EndEntries(r) :
                /\ i < j
                /\ runs[r].execution_log[i].level = "success"
                /\ runs[r].execution_log[j].level = "error"
    /\ \E r \in Runs :
          /\ runs[r].pc = "await"
          /\ InfoEntries(r) # {}

\* C25: the log of every record is append-only: in every step (execute up
\* to its first suspension, a handler completion with the walk that follows
\* it, stop, get_status, the clock) the log before the step is a prefix of the
\* log after it.
C25_LogAppendOnly ==
    [][\A r \in Runs :
          /\ Len(runs'[r].execution_log) >= Len(runs[r].execution_log)
          /\ SubSeq(runs'[r].execution_log, 1, Len(runs[r].execution_log))
                = runs[r].execution_log]_vars
\* A run whose log grew over several steps (two dispatches, the second one
\* awaited and then faulted) and was then stopped or queried.
C25_Witness ==
    /\ last_call.op \in {"stop_execution", "get_execution_status"}
    /\ \E r \in Runs :
          /\ ReturnedError(r)
          /\ Len(runs[r].calls) >= 2
          /\ Len(runs[r].execution_log) >= 5

\* The ids of the nodes of run r that no connection leads into, in the
\* order the payload declares them.
DeclaredStarts(r) ==
    LET starts == SelectSeq(runs[r].nodes, LAMBDA node :
                      \A e \in Edges(r) : e[2] # node.id)
    IN  [i \in 1..Len(starts) |-> starts[i].id]
FirstPos(seq, x) == CHOOSE i \in 1..Len(seq) : seq[i] = x /\ \A j \in 1..(i - 1) : seq[j] # x
\* The indexes of the connections of run r that lead into node `id`.
Incoming(r, id) ==
    {i \in 1..Len(runs[r].connections) : runs[r].connections[i].to_node = id}

\* C26: the handlers of one run never overlap: between two info entries of
\* the log lies the success or error entry of the first one's node, and at
\* most one handler is in flight; the inputs of a dispatch were stored in
\* the order of the connections into the node; the dispatches follow the
\* declaration order of the start nodes, none skipped.
C26_NoOverlap ==
    \A r \in Runs :
        LET log == runs[r].execution_log
            calls == runs[r].calls
            ids == [k \in 1..Len(calls) |-> calls[k].node_id]
            starts == DeclaredStarts(r)
        IN  /\ \A i, j \in InfoEntries(r) :
                  i < j => \E e \in EndEntries(r) :
                              i < e /\ e < j /\ log[e].node_id = log[i].node_id
            /\ Cardinality(InfoEntries(r)) - Cardinality(EndEntries(r))
                  = IF runs[r].pc = "await" THEN 1 ELSE 0
            /\ Len(runs[r].awaiting) <= 1
            /\ \A k \in 1..Len(calls) :
                  LET inputs == calls[k].inputs
                      conns == runs[r].connections
                      first(slot) ==
                          CHOOSE c \in Incoming(r, ids[k]) :
                              /\ conns[c].to_input = slot
                              /\ \A d \in Incoming(r, ids[k]) :
                                    conns[d].to_input = slot => c <= d
                  IN  /\ {inputs[a][1] : a \in 1..Len(inputs)}
                         = {conns[c].to_input : c \in Incoming(r, ids[k])}
                      /\ \A a, b \in 1..Len(inputs) :
                            a < b => first(inputs[a][1]) < first(inputs[b][1])
            /\ \A k \in 1..Len(ids) : \E i \in 1..Len(starts) : starts[i] = ids[k]
            /\ \A k, l \in 1..Len(ids) :
                  k < l => FirstPos(starts, ids[k]) < FirstPos(starts, ids[l])
            /\ \A k \in 1..Len(ids) : \A i \in 1..(FirstPos(starts, ids[k]) - 1) :
                  \E l \in 1..(k - 1) : ids[l] = starts[i]
\* A run with two start nodes: the first was awaited and ended after the
\* clock had moved on, and only then the second was dispatched.
C26_Witness ==
    \E r \in Runs :
        /\ Len(DeclaredStarts(r)) = 2
        /\ Len(runs[r].calls) = 2
        /\ \E e \in EndEntries(r) : \E i \in InfoEntries(r) :
              /\ e < i
              /\ runs[r].execution_log[e].timestamp > runs[r].start_time
        /\ ReturnedResult(r)

\* C30: stop does not halt the walk. When the handler in flight of a run
\* that stop has marked stopped ends and no error is logged, the run either
\* has the next start node's handler in flight or has returned a result with
\* every start node dispatched; so a stopped run whose handlers do not fault
\* dispatches all its start nodes and execute returns a result.
C30_StopDoesNotHaltWalk ==
    [][\A r \in Runs :
          (/\ runs[r].status = "stopped"
           /\ runs[r].pc = "await"
           /\ runs'[r] # runs[r]
           /\ \A i \in 1..Len(runs'[r].execution_log) :
                 runs'[r].execution_log[i].level # "error")
          => LET starts == DeclaredStarts(r)
                 dispatched == {runs'[r].calls[k].node_id : k \in 1..Len(runs'[r].calls)}
             IN  \/ /\ runs'[r].pc = "await"
                    /\ runs'[r].status = "stopped"
                    /\ Len(runs'[r].calls) = Len(runs[r].calls) + 1
                 \/ /\ runs'[r].pc = "returned"
                    /\ "result" \in DOMAIN runs'[r].ret[1]
                    /\ \A i \in 1..Len(starts) : starts[i] \in dispatched]_vars
\* The only run was stopped while its first handler was in flight (the stop
\* call got as far as writing the status), its second start node was
\* dispatched afterwards, and execute returned a result.
C30_Witness ==
    /\ Len(runs) = 1
    /\ last_call.op = "stop_execution"
    /\ last_call.id = runs[1].id
    /\ last_call.out[1] = "raise"
    /\ ReturnedResult(1)
    /\ Len(runs[1].calls) = 2
    /\ \E e \in EndEntries(1) : e + 1 \in InfoEntries(1)

\* C29: every execute call terminates, whatever the graph (acyclic, cyclic,
\* with dangling connections), provided the external calls it awaits
\* return: the nesting of execute_node stays below the interpreter's
\* recursion limit and no call ends in a RecursionError, and every call
\* that was made has, from some moment on, returned with its record in a
\* terminal status (a returned coroutine stays returned).
C29_ExecuteTerminates ==
    /\ [](\A r \in Runs :
             /\ Len(runs[r].stack) < RecursionLimit
             /\ ReturnedError(r) => runs[r].ret[1].error[1] # "RecursionError")
    /\ \A r \in 1..MaxRuns :
          []<>(r \in Runs => (Returned(r) /\ runs[r].status \in TerminalStatus))
\* An execute call on a graph with a directed cycle, or with a dangling
\* connection, that dispatched a handler and has returned, its record in a
\* terminal status.
C29_Witness ==
    \E r \in Runs :
        /\ HasCycle(Edges(r)) \/ ~ NoDanglingConnection(r)
        /\ runs[r].calls # <<>>
        /\ Returned(r)
        /\ runs[r].status \in TerminalStatus

\* C28: a run started through the module-level entry point for context C
\* runs on an engine bound to C: whenever its AGENT or TOOL handler awaits
\* the agent or tool capability, that capability is the one of C, also when
\* the engine was created by an earlier call for another context.
C28_EngineBoundToCaller ==
    \A r \in Runs :
        (/\ runs[r].pc = "await"
         /\ runs[r].awaiting[1][1] \in {"agent", "tool"})
        => SelfContext(runs[r]) = runs[r].context

====
